---- MODULE Spec2Model ----
(***************************************************************************)
(* MachineReconciler of controllers/machine_controller.go: the reconcile   *)
(* loop that keeps the pre-terminate deletion hook annotation of a Machine *)
(* in step with the deletion and finalizer state of its Cluster.           *)
(*                                                                         *)
(* One Reconcile invocation is three steps, cut at its interactions with   *)
(* the API server: ReconcileGet (Get of the Machine and patch.NewHelper),  *)
(* ReconcileBody (label lookup, Get of the Cluster, the decision) and      *)
(* ReconcileDeferredPatch (the deferred patchHelper.Patch).  The API       *)
(* server's objects change between the steps through the actions of the    *)
(* other controllers and of the user.                                      *)
(***************************************************************************)
EXTENDS Naturals, Sequences, FiniteSets, TLC

VARIABLES
    keys,         \* the request keys the controller is invoked for
    machines,     \* API server: Machine objects by key
    clusters,     \* API server: Cluster objects by name
    pc,           \* per key: position of the running Reconcile
    obj,          \* per key: the Machine read by r.Client.Get (line 54)
    patchHelper,  \* per key: the snapshot taken by patch.NewHelper (line 64)
    cluster,      \* per key: the Cluster read by r.Client.Get (line 86)
    reterr,       \* per key: the named result reterr (line 48)
    res,          \* per key: the ctrl.Result returned (line 52)
    path,         \* per key: the return statement the invocation took
    gets,         \* per key: kinds of the objects this invocation asked for
    requests,     \* per key: update requests this invocation sent
    commits,      \* per key: the runs of the deferred patch, with their errors
    prev,         \* per key: what the previous invocation left
    extChange,    \* per key: an object changed since the invocation started
    render        \* the bootstrap workflow's call of the manifest renderer

vars == <<keys, machines, clusters, pc, obj, patchHelper, cluster, reterr,
          res, path, gets, requests, commits, prev, extChange, render>>

----------------------------------------------------------------------------
(* Names of the API objects and of their labels, finalizers, annotations.  *)

Machines == {"m1", "m2"}
ClusterNames == {"c1"}

Nil == "nil"

\* clusterv1.ClusterLabelName, akoov1alpha1.AviClusterLabel,
\* akoov1alpha1.ClusterFinalizer
ClusterLabelName == "cluster.x-k8s.io/cluster-name"
AviClusterLabel == "networking.tkg.tanzu.vmware.com/avi"
ClusterFinalizer == "ako-operator.networking.tkg.tanzu.vmware.com"

\* An annotation key is the sequence of its segments, so that a key having
\* another key as its prefix is decided by comparing them.
PreTerminateDeleteHookAnnotationPrefix ==
    <<"pre-terminate.delete.hook.machine.cluster.x-k8s.io">>

preTerminateAnnotation ==
    PreTerminateDeleteHookAnnotationPrefix \o <<"/avi-cleanup">>

OtherHookAnnotation ==
    PreTerminateDeleteHookAnnotationPrefix \o <<"/other-cleanup">>

UnrelatedAnnotation == <<"example.com", "/note">>

AnnotationKeys ==
    {preTerminateAnnotation, PreTerminateDeleteHookAnnotationPrefix,
     OtherHookAnnotation, UnrelatedAnnotation}

AkoOperator == "ako-operator"
AnnotationValues == {AkoOperator, "other"}

----------------------------------------------------------------------------
(* Maps (Go map[string]string; a nil map reads as the empty one).          *)

EmptyMap == [k \in {} |-> AkoOperator]

MapPut(m, key, val) ==
    [k \in DOMAIN m \cup {key} |-> IF k = key THEN val ELSE m[k]]

MapDelete(m, key) == [k \in DOMAIN m \ {key} |-> m[k]]

HasPrefix(s, prefix) ==
    /\ Len(s) >= Len(prefix)
    /\ SubSeq(s, 1, Len(prefix)) = prefix

\* annotations.HasWithPrefix of sigs.k8s.io/cluster-api/util/annotations
HasWithPrefix(prefix, annotations) ==
    \E k \in DOMAIN annotations : HasPrefix(k, prefix)

\* controllerruntime.ContainsFinalizer
ContainsFinalizer(c, finalizer) == finalizer \in c.finalizers

----------------------------------------------------------------------------
(* Objects of the API server.                                              *)

NoMachine == [exists |-> FALSE, labels |-> EmptyMap, annotations |-> EmptyMap]

NoCluster ==
    [exists |-> FALSE, labels |-> {}, deletionTimestamp |-> FALSE,
     finalizers |-> {}]

\* Annotation maps a Machine can carry: any of the keys, the hook with
\* either value, the other keys with the value of their writer.
AnnotationMaps ==
    UNION {[d -> AnnotationValues] : d \in SUBSET AnnotationKeys}

InitAnnotations ==
    {a \in AnnotationMaps :
        \A k \in DOMAIN a : k # preTerminateAnnotation => a[k] = "other"}

InitMachines ==
    {NoMachine} \cup
    {[exists |-> TRUE, labels |-> l, annotations |-> a] :
        l \in {EmptyMap, [k \in {ClusterLabelName} |-> "c1"]},
        a \in InitAnnotations}

InitClusters ==
    {NoCluster} \cup
    {[exists |-> TRUE, labels |-> l, deletionTimestamp |-> d,
      finalizers |-> f] :
        l \in SUBSET {AviClusterLabel}, d \in BOOLEAN,
        f \in SUBSET {ClusterFinalizer}}

\* ctrl.Result{}
EmptyResult == [Requeue |-> FALSE, RequeueAfter |-> 0]

\* Before the first invocation for a key there is no previous one.
NoPrev ==
    [ran |-> FALSE, err |-> Nil, wrote |-> FALSE, annotations |-> EmptyMap]

----------------------------------------------------------------------------
(* The decision of Reconcile, on the annotations of obj.                   *)

\* lines 131-148
reconcileNormal(annotations) ==
    IF PreTerminateDeleteHookAnnotationPrefix \notin DOMAIN annotations
    THEN MapPut(annotations, preTerminateAnnotation, AkoOperator)
    ELSE annotations

\* reconcileMachineDeletionHook without the test of the finalizer
reconcileMachineDeletionHook_NoFinalizerCheck(annotations, c) ==
    IF HasWithPrefix(PreTerminateDeleteHookAnnotationPrefix, annotations)
    THEN MapDelete(annotations, preTerminateAnnotation)
    ELSE annotations

\* reconcileMachineDeletionHook deleting the prefix instead of the hook key
reconcileMachineDeletionHook_WrongKey(annotations, c) ==
    IF ContainsFinalizer(c, ClusterFinalizer)
    THEN annotations
    ELSE IF HasWithPrefix(PreTerminateDeleteHookAnnotationPrefix, annotations)
         THEN MapDelete(annotations, PreTerminateDeleteHookAnnotationPrefix)
         ELSE annotations

\* reconcileMachineDeletionHook deleting every key that has the prefix
reconcileMachineDeletionHook_AllHooks(annotations, c) ==
    IF ContainsFinalizer(c, ClusterFinalizer)
    THEN annotations
    ELSE [k \in {x \in DOMAIN annotations :
                    ~HasPrefix(x, PreTerminateDeleteHookAnnotationPrefix)}
            |-> annotations[k]]

\* lines 152-174
reconcileMachineDeletionHook(annotations, c) ==
    IF ContainsFinalizer(c, ClusterFinalizer)
    THEN annotations
    ELSE IF HasWithPrefix(PreTerminateDeleteHookAnnotationPrefix, annotations)
         THEN MapDelete(annotations, preTerminateAnnotation)
         ELSE annotations

\* lines 119-127
reconcileClusterDelete(annotations, c) ==
    reconcileMachineDeletionHook(annotations, c)

\* Decide without the test of the AVI label
Decide_NoScopeCheck(annotations, c) ==
    IF c.deletionTimestamp
    THEN reconcileClusterDelete(annotations, c)
    ELSE reconcileNormal(annotations)

\* lines 96-116: the annotations of obj after the branch on the Cluster read
Decide(annotations, c) ==
    IF AviClusterLabel \notin c.labels
    THEN annotations
    ELSE IF c.deletionTimestamp
         THEN reconcileClusterDelete(annotations, c)
         ELSE reconcileNormal(annotations)

\* lines 96-116: the return statement taken
DecidePath(c) ==
    IF AviClusterLabel \notin c.labels THEN "outOfScope"
    ELSE IF c.deletionTimestamp
         THEN IF ContainsFinalizer(c, ClusterFinalizer)
              THEN "wait" ELSE "delete"
         ELSE "normal"

----------------------------------------------------------------------------
(* The patch helper: snapshot at NewHelper, diff and update at Patch.      *)

Diff(before, after) ==
    [set |-> [k \in {x \in DOMAIN after :
                        x \notin DOMAIN before \/ before[x] # after[x]}
                |-> after[k]],
     del |-> DOMAIN before \ DOMAIN after]

EmptyDiff(d) == DOMAIN d.set = {} /\ d.del = {}

ApplyPatch(annotations, d) ==
    [k \in (DOMAIN annotations \ d.del) \cup DOMAIN d.set |->
        IF k \in DOMAIN d.set THEN d.set[k] ELSE annotations[k]]

\* The deferred function replacing an error already returned
DeferredReterr_Override(r, err) == IF err # Nil THEN err ELSE r

\* The deferred function only logging the patch error
DeferredReterr_LogOnly(r, err) == r

\* lines 69-76: the deferred function's assignment to the named result
DeferredReterr(r, err) == IF err # Nil /\ r = Nil THEN err ELSE r

----------------------------------------------------------------------------
(* The manifest renderer, ConvertToAKODeploymentYaml.  A text is the       *)
(* sequence of its tokens, so that a CIDR is recognised by parsing it.     *)

Num(n) == [t |-> "num", v |-> n]
Dot == [t |-> ".", v |-> 0]
Slash == [t |-> "/", v |-> 0]
Word == [t |-> "word", v |-> 0]

Address(a, b, c, d) == <<Num(a), Dot, Num(b), Dot, Num(c), Dot, Num(d)>>

\* "10.0.0.0/24", "192.168.0.0/24" and "test" of the unit test, and three
\* more texts that are no address with a prefix
Text_10_0_0_0_24 == Address(10, 0, 0, 0) \o <<Slash, Num(24)>>
Text_192_168_0_0_24 == Address(192, 168, 0, 0) \o <<Slash, Num(24)>>
Text_test == <<Word>>
Text_10_0_0_0 == Address(10, 0, 0, 0)
Text_10_0_0_0_33 == Address(10, 0, 0, 0) \o <<Slash, Num(33)>>
Text_256_0_0_0_24 == Address(256, 0, 0, 0) \o <<Slash, Num(24)>>

CIDRTexts ==
    {Text_10_0_0_0_24, Text_192_168_0_0_24, Text_test, Text_10_0_0_0,
     Text_10_0_0_0_33, Text_256_0_0_0_24}

\* The renderer taking any text for a network range
ValidCIDR_Unchecked(text) == TRUE

\* A network address with a prefix length: a.b.c.d/p
ValidCIDR(text) ==
    /\ Len(text) = 9
    /\ \A i \in {1, 3, 5, 7} : text[i].t = "num" /\ text[i].v <= 255
    /\ \A i \in {2, 4, 6} : text[i] = Dot
    /\ text[8] = Slash
    /\ text[9].t = "num" /\ text[9].v <= 32

\* The AKODeploymentConfig of the unit test, with this data network CIDR
\* and these node network CIDRs
Config(cidr, nodeCidrs) ==
    [CloudName |-> "test-cloud",
     Controller |-> "10.23.122.1",
     ServiceEngineGroup |-> "Default-SEG",
     DataNetwork |-> [Name |-> "test-akdc", CIDR |-> cidr],
     NodeNetworkList |->
        <<[NetworkName |-> "test-node-network-1", Cidrs |-> nodeCidrs]>>,
     DisableStaticRouteSync |-> TRUE]

TestConfig == Config(Text_10_0_0_0_24, <<Text_10_0_0_0_24, Text_192_168_0_0_24>>)

NodeCidrLists ==
    {<<>>} \cup {<<c>> : c \in CIDRTexts}
           \cup {<<c1, c2>> : c1 \in CIDRTexts, c2 \in CIDRTexts}

NoResult == [out |-> <<>>, err |-> Nil]

\* RenderManifest: the fields substituted into the template, the network
\* ranges validated on the way; on a failure the field is named and no
\* output returned.
RenderManifest(config, mgmtClusterName) ==
    IF ~ValidCIDR(config.DataNetwork.CIDR)
    THEN [out |-> <<>>, err |-> "DataNetwork.CIDR"]
    ELSE IF \E n \in DOMAIN config.NodeNetworkList :
              \E i \in DOMAIN config.NodeNetworkList[n].Cidrs :
                 ~ValidCIDR(config.NodeNetworkList[n].Cidrs[i])
    THEN [out |-> <<>>, err |-> "NodeNetworkList.Cidrs"]
    ELSE [out |-> <<[kind |-> "ConfigMap",
                     clusterName |-> mgmtClusterName,
                     values |-> config]>>,
          err |-> Nil]

\* No call of the renderer yet, the configuration and the environment of
\* the unit test.
NoRender ==
    [pc |-> "idle", config |-> TestConfig, env |-> "test", result |-> NoResult]

----------------------------------------------------------------------------
(* Initial state: any Machine and Cluster the API server can hold, no      *)
(* Reconcile running.                                                      *)

Init ==
    /\ keys = {"m1"}
    /\ \E m \in InitMachines :
           machines = [k \in Machines |-> IF k \in keys THEN m ELSE NoMachine]
    /\ clusters \in [ClusterNames -> InitClusters]
    /\ pc = [k \in Machines |-> "idle"]
    /\ obj = [k \in Machines |-> NoMachine]
    /\ patchHelper = [k \in Machines |-> EmptyMap]
    /\ cluster = [k \in Machines |-> NoCluster]
    /\ reterr = [k \in Machines |-> Nil]
    /\ res = [k \in Machines |-> EmptyResult]
    /\ path = [k \in Machines |-> "none"]
    /\ gets = [k \in Machines |-> <<>>]
    /\ requests = [k \in Machines |-> <<>>]
    /\ commits = [k \in Machines |-> <<>>]
    /\ prev = [k \in Machines |-> NoPrev]
    /\ extChange = [k \in Machines |-> FALSE]
    /\ render = NoRender

----------------------------------------------------------------------------
(* Reconcile, lines 48-117.                                                *)

\* The not-found error returned like any other error of Get
NotFoundReturn_Err == "MachineNotFound"

\* lines 56-59: the result for a Machine that is not found
NotFoundReturn == Nil

\* The helper made of the empty Machine of line 54, before Get fills it
NewHelper_BeforeGet(machine) == EmptyMap

\* line 64: the snapshot patch.NewHelper takes of the object just read
NewHelper(machine) == machine.annotations

\* The body sending its own update of obj as soon as it has changed it
BodySends_Update(before, after) ==
    IF before # after
    THEN <<[object |-> after, patch |-> Diff(before, after)]>>
    ELSE <<>>

\* lines 78-117: the update requests the body itself sends: none, every
\* write is left to the deferred patch
BodySends(before, after) == <<>>

\* An error of the Get of the Cluster taken for success, as the not-found
\* error of the Get of the Machine is
OwnerErrorReturn_Swallow(err) == IF err = "ClusterNotFound" THEN Nil ELSE err

\* lines 87-92: the result for a failed Get of the Cluster
OwnerErrorReturn(err) == err

\* obj kept in a field of the reconciler, shared by the invocations
StoreObj_Shared(o, m, machine) == [k \in DOMAIN o |-> machine]

\* lines 54-55: obj is a local of the invocation, filled by Get
StoreObj(o, m, machine) == [o EXCEPT ![m] = machine]

\* The lookup of the cluster name taken to succeed for every Machine
HasClusterName_Always(labels) == TRUE

\* lines 79-80: the Machine has the cluster name label
HasClusterName(labels) == ClusterLabelName \in DOMAIN labels

\* line 79: the cluster name; a Go map gives "" for a key it has not
ClusterNameOf(labels) ==
    IF ClusterLabelName \in DOMAIN labels THEN labels[ClusterLabelName]
    ELSE ""

\* lines 86-90: the Cluster of that name in the API server, if any
GetCluster(name) == IF name \in ClusterNames THEN clusters[name] ELSE NoCluster

\* The defer statement placed after the test of the cluster name label
AfterBody_DeferAfterLabel(p) == IF p = "noLabel" THEN "done" ELSE "deferred"

\* lines 69-76: the deferred patch is set up before the body, so it runs
\* after every return statement of the body
AfterBody(p) == "deferred"

\* What an invocation that returns before the deferred patch is set up
\* leaves: no object read, no snapshot.
Return(m, err, p) ==
    /\ pc' = [pc EXCEPT ![m] = "done"]
    /\ reterr' = [reterr EXCEPT ![m] = err]
    /\ res' = [res EXCEPT ![m] = EmptyResult]
    /\ path' = [path EXCEPT ![m] = p]
    /\ obj' = [obj EXCEPT ![m] = NoMachine]
    /\ patchHelper' = [patchHelper EXCEPT ![m] = EmptyMap]

\* lines 48-76: Get of the Machine, patch.NewHelper, the defer statement.
\* The Scheduler starts an invocation for a key only when none is running
\* for it.
ReconcileGet(m) ==
    /\ m \in keys
    /\ pc[m] \in {"idle", "done"}
    /\ prev' = [prev EXCEPT ![m] =
          IF pc[m] = "done" /\ ~extChange[m]
          THEN [ran |-> TRUE, err |-> reterr[m],
                wrote |-> requests[m] # <<>>,
                annotations |-> machines[m].annotations]
          ELSE NoPrev]
    /\ extChange' = [extChange EXCEPT ![m] = FALSE]
    /\ gets' = [gets EXCEPT ![m] = <<"Machine">>]
    /\ requests' = [requests EXCEPT ![m] = <<>>]
    /\ commits' = [commits EXCEPT ![m] = <<>>]
    /\ cluster' = [cluster EXCEPT ![m] = NoCluster]
    /\ \E outcome \in {"ok", "getError", "helperError"} :
          IF outcome = "getError"
          THEN Return(m, "GetMachineError", "getError")
          ELSE IF ~machines[m].exists
          THEN Return(m, NotFoundReturn, "notFound")
          ELSE IF outcome = "helperError"
          THEN Return(m, "NewHelperError", "helperError")
          ELSE /\ obj' = StoreObj(obj, m, machines[m])
               /\ patchHelper' =
                      [patchHelper EXCEPT ![m] = NewHelper(machines[m])]
               /\ pc' = [pc EXCEPT ![m] = "body"]
               /\ reterr' = [reterr EXCEPT ![m] = Nil]
               /\ res' = [res EXCEPT ![m] = EmptyResult]
               /\ path' = [path EXCEPT ![m] = "none"]
    /\ UNCHANGED <<keys, render, machines, clusters>>

\* lines 78-117: the cluster name label, Get of the Cluster, the decision.
\* The return statement sets reterr; the deferred patch is still to run.
ReconcileBody(m) ==
    /\ pc[m] = "body"
    /\ IF ~HasClusterName(obj[m].labels)
       THEN /\ path' = [path EXCEPT ![m] = "noLabel"]
            /\ reterr' = [reterr EXCEPT ![m] = Nil]
            /\ UNCHANGED <<obj, cluster, gets>>
       ELSE LET clusterName == ClusterNameOf(obj[m].labels) IN
            /\ gets' = [gets EXCEPT ![m] = Append(@, "Cluster")]
            /\ \E outcome \in {"ok", "getError"} :
                  IF outcome = "getError"
                  THEN /\ path' = [path EXCEPT ![m] = "ownerError"]
                       /\ reterr' = [reterr EXCEPT
                             ![m] = OwnerErrorReturn("GetClusterError")]
                       /\ UNCHANGED <<obj, cluster>>
                  ELSE IF ~GetCluster(clusterName).exists
                  THEN /\ path' = [path EXCEPT ![m] = "ownerNotFound"]
                       /\ reterr' = [reterr EXCEPT
                             ![m] = OwnerErrorReturn("ClusterNotFound")]
                       /\ UNCHANGED <<obj, cluster>>
                  ELSE LET c == GetCluster(clusterName) IN
                       /\ cluster' = [cluster EXCEPT ![m] = c]
                       /\ obj' = [obj EXCEPT ![m].annotations = Decide(@, c)]
                       /\ path' = [path EXCEPT ![m] = DecidePath(c)]
                       /\ reterr' = [reterr EXCEPT ![m] = Nil]
    /\ requests' = [requests EXCEPT
          ![m] = @ \o BodySends(obj[m].annotations, obj'[m].annotations)]
    /\ pc' = [pc EXCEPT ![m] = AfterBody(path'[m])]
    /\ UNCHANGED <<keys, render, machines, clusters, patchHelper, res, commits,
                   prev, extChange>>

\* lines 69-76: the deferred patchHelper.Patch.  The helper computes the
\* diff of the snapshot and obj and, when it is not empty, sends one update;
\* either can fail.
ReconcileDeferredPatch(m) ==
    /\ pc[m] = "deferred"
    /\ pc' = [pc EXCEPT ![m] = "done"]
    /\ LET d == Diff(patchHelper[m], obj[m].annotations)
           Finish(err) ==
               /\ reterr' = [reterr EXCEPT ![m] = DeferredReterr(@, err)]
               /\ commits' = [commits EXCEPT ![m] =
                     Append(@, [err |-> err, reterr |-> reterr[m]])]
       IN
       \E outcome \in {"ok", "diffError", "updateError"} :
          IF outcome = "diffError"
          THEN /\ Finish("PatchError")
               /\ UNCHANGED <<machines, requests>>
          ELSE IF EmptyDiff(d)
          THEN /\ outcome = "ok"
               /\ Finish(Nil)
               /\ UNCHANGED <<machines, requests>>
          ELSE /\ requests' = [requests EXCEPT ![m] =
                     Append(@, [object |-> obj[m].annotations, patch |-> d])]
               /\ IF outcome = "updateError" \/ ~machines[m].exists
                  THEN /\ Finish("PatchError")
                       /\ UNCHANGED machines
                  ELSE /\ Finish(Nil)
                       /\ machines' = [machines EXCEPT
                             ![m].annotations = ApplyPatch(@, d)]
    /\ UNCHANGED <<keys, render, clusters, obj, patchHelper, cluster, res, path,
                   gets, prev, extChange>>

----------------------------------------------------------------------------
(* The other writers of the API server: the user, Cluster API and the      *)
(* controllers that own the Cluster finalizer and the other hooks.         *)

Changed == extChange' = [k \in Machines |-> TRUE]

Locals ==
    <<pc, obj, patchHelper, cluster, reterr, res, path, gets, requests,
      commits, prev>>

\* The Cluster is deleted: its deletion timestamp is set.
ClusterDelete(c) ==
    /\ clusters[c].exists
    /\ ~clusters[c].deletionTimestamp
    /\ clusters' = [clusters EXCEPT ![c].deletionTimestamp = TRUE]
    /\ Changed
    /\ UNCHANGED <<keys, render, machines, Locals>>

\* The cleanup of the deleted Cluster has finished: its finalizer goes.
ClusterRemoveFinalizer(c) ==
    /\ clusters[c].exists
    /\ clusters[c].deletionTimestamp
    /\ ClusterFinalizer \in clusters[c].finalizers
    /\ clusters' = [clusters EXCEPT ![c].finalizers = @ \ {ClusterFinalizer}]
    /\ Changed
    /\ UNCHANGED <<keys, render, machines, Locals>>

\* The deleted Cluster, its finalizers gone, leaves the API server.
ClusterGone(c) ==
    /\ clusters[c].exists
    /\ clusters[c].deletionTimestamp
    /\ clusters[c].finalizers = {}
    /\ clusters' = [clusters EXCEPT ![c] = NoCluster]
    /\ Changed
    /\ UNCHANGED <<keys, render, machines, Locals>>

\* The user sets or removes the AVI label of a Cluster.
ClusterLabel(c) ==
    /\ clusters[c].exists
    /\ clusters' = [clusters EXCEPT ![c].labels =
          IF AviClusterLabel \in @ THEN @ \ {AviClusterLabel}
          ELSE @ \cup {AviClusterLabel}]
    /\ Changed
    /\ UNCHANGED <<keys, render, machines, Locals>>

\* Another controller sets or removes its own pre-terminate hook.
MachineAnnotate(m) ==
    /\ machines[m].exists
    /\ machines' = [machines EXCEPT ![m].annotations =
          IF OtherHookAnnotation \in DOMAIN @
          THEN MapDelete(@, OtherHookAnnotation)
          ELSE MapPut(@, OtherHookAnnotation, "other")]
    /\ Changed
    /\ UNCHANGED <<keys, render, clusters, Locals>>

\* The Machine leaves the API server.
MachineGone(m) ==
    /\ machines[m].exists
    /\ machines' = [machines EXCEPT ![m] = NoMachine]
    /\ Changed
    /\ UNCHANGED <<keys, render, clusters, Locals>>

Next ==
    \/ \E m \in Machines : ReconcileGet(m)
    \/ \E m \in Machines : ReconcileBody(m)
    \/ \E m \in Machines : ReconcileDeferredPatch(m)
    \/ \E c \in ClusterNames : ClusterDelete(c)
    \/ \E c \in ClusterNames : ClusterRemoveFinalizer(c)
    \/ \E c \in ClusterNames : ClusterGone(c)
    \/ \E c \in ClusterNames : ClusterLabel(c)
    \/ \E m \in Machines : MachineAnnotate(m)
    \/ \E m \in Machines : MachineGone(m)

Spec == Init /\ [][Next]_vars

----------------------------------------------------------------------------
(* The Scheduler running the invocations of two keys in parallel, one at a *)
(* time per key, while nothing else writes to the API server.              *)

ParAnnotations ==
    {EmptyMap,
     [k \in {preTerminateAnnotation} |-> AkoOperator],
     [k \in {preTerminateAnnotation, OtherHookAnnotation} |->
        IF k = preTerminateAnnotation THEN AkoOperator ELSE "other"],
     [k \in {UnrelatedAnnotation} |-> "other"]}

InitPar ==
    /\ keys = Machines
    /\ machines \in
          [Machines ->
             {[exists |-> TRUE,
               labels |-> [k \in {ClusterLabelName} |-> "c1"],
               annotations |-> a] : a \in ParAnnotations}]
    /\ clusters \in [ClusterNames -> InitClusters]
    /\ pc = [k \in Machines |-> "idle"]
    /\ obj = [k \in Machines |-> NoMachine]
    /\ patchHelper = [k \in Machines |-> EmptyMap]
    /\ cluster = [k \in Machines |-> NoCluster]
    /\ reterr = [k \in Machines |-> Nil]
    /\ res = [k \in Machines |-> EmptyResult]
    /\ path = [k \in Machines |-> "none"]
    /\ gets = [k \in Machines |-> <<>>]
    /\ requests = [k \in Machines |-> <<>>]
    /\ commits = [k \in Machines |-> <<>>]
    /\ prev = [k \in Machines |-> NoPrev]
    /\ extChange = [k \in Machines |-> FALSE]
    /\ render = NoRender

NextPar ==
    \/ \E m \in Machines : ReconcileGet(m)
    \/ \E m \in Machines : ReconcileBody(m)
    \/ \E m \in Machines : ReconcileDeferredPatch(m)

SpecPar == InitPar /\ [][NextPar]_vars

----------------------------------------------------------------------------
(* The bootstrap workflow: it builds a configuration and renders it; the   *)
(* reconciler is not running.                                              *)

ReconcilerVars ==
    <<keys, machines, clusters, pc, obj, patchHelper, cluster, reterr, res,
      path, gets, requests, commits, prev, extChange>>

InitRender ==
    /\ keys = {}
    /\ machines = [k \in Machines |-> NoMachine]
    /\ clusters = [c \in ClusterNames |-> NoCluster]
    /\ pc = [k \in Machines |-> "idle"]
    /\ obj = [k \in Machines |-> NoMachine]
    /\ patchHelper = [k \in Machines |-> EmptyMap]
    /\ cluster = [k \in Machines |-> NoCluster]
    /\ reterr = [k \in Machines |-> Nil]
    /\ res = [k \in Machines |-> EmptyResult]
    /\ path = [k \in Machines |-> "none"]
    /\ gets = [k \in Machines |-> <<>>]
    /\ requests = [k \in Machines |-> <<>>]
    /\ commits = [k \in Machines |-> <<>>]
    /\ prev = [k \in Machines |-> NoPrev]
    /\ extChange = [k \in Machines |-> FALSE]
    /\ \E n \in NodeCidrLists :
          render = [NoRender EXCEPT !.config = Config(Text_10_0_0_0_24, n)]

\* The caller sets the data network CIDR of its configuration.
SetDataNetworkCIDR(text) ==
    /\ render.config.DataNetwork.CIDR # text
    /\ render' = [render EXCEPT !.pc = "idle",
                                !.config.DataNetwork.CIDR = text,
                                !.result = NoResult]
    /\ UNCHANGED ReconcilerVars

\* The caller renders its configuration; the cluster name comes from the
\* environment.
Render ==
    /\ render' = [render EXCEPT
          !.pc = "done",
          !.result = RenderManifest(render.config, render.env)]
    /\ UNCHANGED ReconcilerVars

NextRender ==
    \/ \E text \in CIDRTexts : SetDataNetworkCIDR(text)
    \/ Render

SpecRender == InitRender /\ [][NextRender]_vars

----------------------------------------------------------------------------
(* Vocabulary of the properties.                                           *)

HookPresent(annotations) == preTerminateAnnotation \in DOMAIN annotations

InScope(c) == AviClusterLabel \in c.labels

Deleting(c) == c.deletionTimestamp

FinalizerPresent(c) == ContainsFinalizer(c, ClusterFinalizer)

Done(m) == pc[m] = "done"

\* The invocation for m read its Cluster and reached the scope check.
ReadOwner(m) == path[m] \in {"outOfScope", "wait", "delete", "normal"}

\* The invocation for m has returned without error, it had read an in-scope
\* Cluster, and the Machine is still there to look at.
Succeeded(m) ==
    /\ Done(m)
    /\ reterr[m] = Nil
    /\ ReadOwner(m)
    /\ InScope(cluster[m])
    /\ machines[m].exists

\* The body has returned: the deferred patch is pending or has run.
Returned(m) == pc[m] \in {"deferred", "done"}

\* The invocation for m changed obj, or asked the API server to change it.
Mutated(m) ==
    \/ obj[m].annotations # patchHelper[m]
    \/ requests[m] # <<>>

\* The invocation for m took the hook off obj, or asked the API server to.
RemovedHook(m) ==
    \/ HookPresent(patchHelper[m]) /\ ~HookPresent(obj[m].annotations)
    \/ \E i \in DOMAIN requests[m] :
          preTerminateAnnotation \in requests[m][i].patch.del

\* The error of the deferred patch of the invocation for m, Nil if none.
CommitFailed(m) == commits[m] # <<>> /\ commits[m][1].err # Nil

\* The invocation for m is the second of two in a row, with no change of
\* any object since the first began.
SecondInARow(m) == Done(m) /\ prev[m].ran /\ ~extChange[m]

----------------------------------------------------------------------------
(* C1: state table.  After a successful Reconcile that read an in-scope    *)
(* Cluster the hook is: present when the Cluster was not deleting;         *)
(* as it was when the Cluster was deleting with the finalizer; absent when *)
(* the Cluster was deleting without the finalizer.                         *)

C1_StateTable ==
    \A m \in keys :
        Succeeded(m) =>
            LET before == HookPresent(patchHelper[m])
                after == HookPresent(machines[m].annotations)
            IN  IF ~Deleting(cluster[m]) THEN after
                ELSE IF FinalizerPresent(cluster[m]) THEN after = before
                ELSE ~after

----------------------------------------------------------------------------
(* C2, as claimed: Reconcile takes the hook off only after reading an      *)
(* in-scope Cluster that is deleting without the finalizer; having read a  *)
(* deleting Cluster that still has the finalizer, it changes nothing and   *)
(* returns no error.                                                       *)

OwnerCleanedUp(m) ==
    /\ ReadOwner(m)
    /\ InScope(cluster[m])
    /\ Deleting(cluster[m])
    /\ ~FinalizerPresent(cluster[m])

OwnerCleaningUp(m) ==
    /\ ReadOwner(m)
    /\ InScope(cluster[m])
    /\ Deleting(cluster[m])
    /\ FinalizerPresent(cluster[m])

\* Reconcile returns no error, or the error of its own deferred patch.
NilUnlessCommitFailed(m) ==
    /\ pc[m] = "deferred" => reterr[m] = Nil
    /\ Done(m) =>
          \/ reterr[m] = Nil
          \/ CommitFailed(m) /\ reterr[m] = commits[m][1].err

C2_AsClaimed ==
    \A m \in keys :
        Returned(m) =>
            /\ RemovedHook(m) => OwnerCleanedUp(m)
            /\ OwnerCleaningUp(m) => ~Mutated(m) /\ reterr[m] = Nil

(* C2, amended: Reconcile takes the hook off only after reading an         *)
(* in-scope Cluster that is deleting without the finalizer; having read a  *)
(* deleting Cluster that still has the finalizer, it changes nothing, its  *)
(* return statement returns no error, and Reconcile returns no error       *)
(* unless the deferred patch itself fails.                                 *)

C2_RemovesOnlyAfterCleanup ==
    \A m \in keys :
        Returned(m) =>
            /\ RemovedHook(m) => OwnerCleanedUp(m)
            /\ OwnerCleaningUp(m) => ~Mutated(m) /\ NilUnlessCommitFailed(m)

C2_Witness ==
    \E m \in keys :
        /\ Done(m)
        /\ OwnerCleaningUp(m)
        /\ HookPresent(patchHelper[m])
        /\ HookPresent(machines[m].annotations)
        /\ reterr[m] = Nil

----------------------------------------------------------------------------
(* C3, as claimed: after a successful Reconcile that read an in-scope      *)
(* Cluster, the hook is present exactly when that Cluster was not          *)
(* (deleting without the finalizer), whatever the annotations were before. *)

----------------------------------------------------------------------------
(* C4, as claimed: of two invocations in a row with no change of any       *)
(* object since the first began, the second leaves the annotations the     *)
(* first left, computes an empty diff and sends no update.                 *)

SecondChangesNothing(m) ==
    /\ machines[m].annotations = prev[m].annotations
    /\ EmptyDiff(Diff(patchHelper[m], obj[m].annotations))
    /\ requests[m] = <<>>

C4_AsClaimed ==
    \A m \in keys : SecondInARow(m) => SecondChangesNothing(m)

(* C4, amended: of two invocations in a row with no change of any object   *)
(* since the first began, the first having returned no error, the second   *)
(* leaves the annotations the first left, computes an empty diff and sends *)
(* no update.                                                              *)

C4_IdempotentAfterSuccess ==
    \A m \in keys :
        (SecondInARow(m) /\ prev[m].err = Nil) => SecondChangesNothing(m)

C4_Witness ==
    \E m \in keys :
        /\ SecondInARow(m)
        /\ prev[m].err = Nil
        /\ prev[m].wrote
        /\ path[m] = "normal"
        /\ commits[m] # <<>>
        /\ reterr[m] = Nil
        /\ HookPresent(machines[m].annotations)

----------------------------------------------------------------------------
(* C5: end to end.  A successful Reconcile that read an in-scope Cluster   *)
(* not deleting, for a Machine without the hook, adds the hook; one that   *)
(* then read the Cluster deleting with the finalizer changes nothing and   *)
(* the hook stays; one that then read the Cluster deleting without the     *)
(* finalizer leaves the Machine without the hook.                          *)

C5_EndToEnd ==
    \A m \in keys :
        Succeeded(m) =>
            /\ (~Deleting(cluster[m]) /\ ~HookPresent(patchHelper[m])) =>
                  /\ HookPresent(machines[m].annotations)
                  /\ machines[m].annotations[preTerminateAnnotation]
                        = AkoOperator
            /\ (OwnerCleaningUp(m) /\ HookPresent(patchHelper[m])) =>
                  /\ ~Mutated(m)
                  /\ HookPresent(machines[m].annotations)
            /\ (OwnerCleanedUp(m) /\ HookPresent(patchHelper[m])) =>
                  /\ requests[m] # <<>>
                  /\ ~HookPresent(machines[m].annotations)

----------------------------------------------------------------------------
(* C6, as claimed: having read a Cluster without the AVI label, Reconcile  *)
(* returns no error and changes nothing, whatever the deletion timestamp   *)
(* and finalizers of the Cluster and the annotations of the Machine.       *)

OwnerOutOfScope(m) == ReadOwner(m) /\ ~InScope(cluster[m])

C6_AsClaimed ==
    \A m \in keys :
        (Returned(m) /\ OwnerOutOfScope(m)) =>
            ~Mutated(m) /\ reterr[m] = Nil

(* C6, amended: having read a Cluster without the AVI label, Reconcile     *)
(* changes nothing, its return statement returns no error, and Reconcile   *)
(* returns no error unless the deferred patch itself fails.                *)

C6_OutOfScopeUntouched ==
    \A m \in keys :
        (Returned(m) /\ OwnerOutOfScope(m)) =>
            ~Mutated(m) /\ NilUnlessCommitFailed(m)

C6_Witness ==
    \E m \in keys :
        /\ Done(m)
        /\ OwnerOutOfScope(m)
        /\ Deleting(cluster[m])
        /\ ~FinalizerPresent(cluster[m])
        /\ HookPresent(machines[m].annotations)
        /\ reterr[m] = Nil

----------------------------------------------------------------------------
(* C7: an invocation whose Machine is not found returns no error and the   *)
(* empty Result, asks for no Cluster and sends no update.                  *)

C7_NotFoundTerminal ==
    \A m \in keys :
        (Done(m) /\ path[m] = "notFound") =>
            /\ reterr[m] = Nil
            /\ res[m] = EmptyResult
            /\ gets[m] = <<"Machine">>
            /\ requests[m] = <<>>
            /\ commits[m] = <<>>

C7_Witness ==
    \E m \in keys :
        /\ Done(m)
        /\ path[m] = "notFound"
        /\ ~machines[m].exists

----------------------------------------------------------------------------
(* C8: an invocation sends at most one update, and the update it sends     *)
(* carries obj as it is when Reconcile returns: the snapshot with the      *)
(* update's patch applied is the final obj.                                *)

C8_AtMostOneCommit ==
    \A m \in keys :
        /\ Len(requests[m]) <= 1
        /\ (Done(m) /\ requests[m] # <<>>) =>
              /\ requests[m][1].object = obj[m].annotations
              /\ ApplyPatch(patchHelper[m], requests[m][1].patch)
                    = obj[m].annotations

C8_Witness ==
    \E m \in keys :
        /\ Done(m)
        /\ Len(requests[m]) = 1
        /\ path[m] = "delete"
        /\ reterr[m] = Nil
        /\ ~HookPresent(machines[m].annotations)

----------------------------------------------------------------------------
(* C9, as claimed: whenever the deferred patch fails, Reconcile returns    *)
(* the error of the patch, whatever the body returned.                     *)

C9_AsClaimed ==
    \A m \in keys :
        (Done(m) /\ CommitFailed(m)) => reterr[m] = commits[m][1].err

(* C9, amended: whenever the deferred patch fails, Reconcile returns the   *)
(* error of the patch if the body returned no error, and the error the     *)
(* body returned otherwise: a failed Get of the Cluster is what Reconcile  *)
(* returns, the patch error is only logged.                                *)

C9_CommitErrorUnlessEarlier ==
    \A m \in keys :
        (Done(m) /\ CommitFailed(m)) =>
            /\ path[m] = "ownerError" => reterr[m] = "GetClusterError"
            /\ path[m] = "ownerNotFound" => reterr[m] = "ClusterNotFound"
            /\ path[m] \notin {"ownerError", "ownerNotFound"} =>
                  reterr[m] = commits[m][1].err

C9_Witness ==
    \E m \in keys :
        /\ Done(m)
        /\ CommitFailed(m)
        /\ path[m] = "ownerError"

----------------------------------------------------------------------------
(* C10: when the body returned no error (out of scope, wait, hook added,   *)
(* hook removed) and the deferred patch fails, Reconcile returns the error *)
(* of the patch, not success.                                              *)

C10_CommitErrorOverridesNil ==
    \A m \in keys :
        (Done(m) /\ CommitFailed(m) /\ commits[m][1].reterr = Nil) =>
            /\ reterr[m] # Nil
            /\ reterr[m] = commits[m][1].err

C10_Witness ==
    \E m \in keys :
        /\ Done(m)
        /\ CommitFailed(m)
        /\ path[m] = "normal"
        /\ requests[m] # <<>>
        /\ reterr[m] = "PatchError"

----------------------------------------------------------------------------
(* C11: when the Get of the Machine fails with an error other than not     *)
(* found, or the Get of the Cluster fails with any error, not found        *)
(* included, Reconcile returns that error, does not change obj and sends   *)
(* no update, whatever the deferred patch does.                            *)

C11_ReadErrorsPropagated ==
    \A m \in keys :
        /\ (Done(m) /\ path[m] = "getError") =>
              /\ reterr[m] = "GetMachineError"
              /\ ~Mutated(m)
              /\ commits[m] = <<>>
        /\ (Returned(m) /\ path[m] = "ownerError") =>
              /\ reterr[m] = "GetClusterError"
              /\ ~Mutated(m)
        /\ (Returned(m) /\ path[m] = "ownerNotFound") =>
              /\ reterr[m] = "ClusterNotFound"
              /\ ~Mutated(m)

C11_Witness ==
    \E m \in keys :
        /\ Done(m)
        /\ path[m] = "ownerNotFound"
        /\ reterr[m] = "ClusterNotFound"
        /\ CommitFailed(m)
        /\ HookPresent(machines[m].annotations)

----------------------------------------------------------------------------
(* C12: with the invocations of two keys interleaved in every way, each    *)
(* invocation reads and writes the Machine of its own key only, and leaves *)
(* it as the same invocation run alone on what it read would: decided when *)
(* it returns no error, untouched when it returns one.                     *)

\* The annotations a whole Reconcile, run alone without error on a Machine
\* with these annotations and this Cluster, leaves in the API server.
RunAlone(annotations, c) == ApplyPatch(annotations,
                                       Diff(annotations, Decide(annotations, c)))

OwnSteps(m) ==
    /\ machines'[m] # machines[m] => pc[m] = "deferred" /\ pc'[m] = "done"
    /\ (obj'[m] # obj[m] \/ patchHelper'[m] # patchHelper[m]
            \/ cluster'[m] # cluster[m] \/ requests'[m] # requests[m])
          => (pc'[m] # pc[m] \/ pc[m] \in {"idle", "done"})
    /\ pc'[m] = "body" =>
          /\ obj'[m] = machines[m]
          /\ patchHelper'[m] = machines[m].annotations

AsAlone(m) ==
    (pc[m] = "done" /\ commits[m] # <<>>) =>
        machines[m].annotations =
            IF reterr[m] = Nil
            THEN RunAlone(patchHelper[m], clusters[obj[m].labels[ClusterLabelName]])
            ELSE patchHelper[m]

C12_PerKeyIsolation ==
    [][\A m \in keys : OwnSteps(m) /\ AsAlone(m)']_vars

C12_Witness ==
    /\ \A m \in Machines :
          /\ pc[m] = "deferred"
          /\ obj[m].annotations # patchHelper[m]
    /\ patchHelper["m1"] # patchHelper["m2"]

----------------------------------------------------------------------------
(* C13: a render of a configuration whose data network CIDR, or one of     *)
(* whose node network CIDRs, is no address with a prefix (the text test,   *)
(* an address without a prefix, a prefix or an octet out of range) returns *)
(* an error and no output; a render of the same configuration with every   *)
(* CIDR 10.0.0.0/24 or 192.168.0.0/24 returns output and no error.         *)

GoodTexts == {Text_10_0_0_0_24, Text_192_168_0_0_24}

ConfigCidrs(config) ==
    {config.DataNetwork.CIDR} \cup
    UNION {{config.NodeNetworkList[n].Cidrs[i] :
               i \in DOMAIN config.NodeNetworkList[n].Cidrs} :
           n \in DOMAIN config.NodeNetworkList}

C13_RenderValidates ==
    render.pc = "done" =>
        IF ConfigCidrs(render.config) \subseteq GoodTexts
        THEN render.result.err = Nil /\ render.result.out # <<>>
        ELSE render.result.err # Nil /\ render.result.out = <<>>

C13_Witness ==
    /\ render.pc = "done"
    /\ render.config.DataNetwork.CIDR = Text_test
    /\ ConfigCidrs(render.config) \ {Text_test} \subseteq GoodTexts
    /\ render.result.err = "DataNetwork.CIDR"

----------------------------------------------------------------------------
(* C15: having read an in-scope Cluster that is not deleting, for a        *)
(* Machine without the hook key, Reconcile puts the hook key with its      *)
(* fixed value into obj and changes nothing else, whatever the other       *)
(* annotations of the Machine: none, unrelated ones, other keys with the   *)
(* prefix, the bare prefix as a key.                                       *)

OwnerLive(m) ==
    /\ ReadOwner(m)
    /\ InScope(cluster[m])
    /\ ~Deleting(cluster[m])

C15_AddHookComplete ==
    \A m \in keys :
        (Returned(m) /\ OwnerLive(m) /\ ~HookPresent(patchHelper[m])) =>
            obj[m].annotations =
                MapPut(patchHelper[m], preTerminateAnnotation, AkoOperator)

----------------------------------------------------------------------------
(* C16: having read an in-scope Cluster that is not deleting, for a        *)
(* Machine that has the hook key with any value, Reconcile does not change *)
(* obj and sends no update.                                                *)

C16_NoActionWhenPresent ==
    \A m \in keys :
        (Returned(m) /\ OwnerLive(m) /\ HookPresent(patchHelper[m])) =>
            ~Mutated(m)

----------------------------------------------------------------------------
(* C17: a step of Reconcile changes no Cluster and no Machine but the one  *)
(* of its key, and of that Machine nothing but the hook key: the labels    *)
(* and every other annotation, the other keys with the prefix included,    *)
(* stay as they are, in obj and in the API server.                         *)

SameButHook(a, b) ==
    \A k \in AnnotationKeys \ {preTerminateAnnotation} :
        /\ (k \in DOMAIN a) = (k \in DOMAIN b)
        /\ k \in DOMAIN a => a[k] = b[k]

ReconcileStep ==
    \/ pc' # pc
    \/ gets' # gets
    \/ requests' # requests
    \/ commits' # commits

StoreFrame ==
    ReconcileStep =>
        /\ clusters' = clusters
        /\ \A m \in Machines :
              machines'[m] # machines[m] =>
                  /\ pc[m] = "deferred"
                  /\ machines'[m].exists = machines[m].exists
                  /\ machines'[m].labels = machines[m].labels
                  /\ SameButHook(machines[m].annotations,
                                 machines'[m].annotations)

ObjFrame ==
    \A m \in keys :
        Returned(m) =>
            /\ SameButHook(patchHelper[m], obj[m].annotations)
            /\ \A i \in DOMAIN requests[m] :
                  /\ DOMAIN requests[m][i].patch.set
                        \subseteq {preTerminateAnnotation}
                  /\ requests[m][i].patch.del \subseteq {preTerminateAnnotation}

C17_Frame == [][StoreFrame /\ ObjFrame']_vars

C17_Witness ==
    \E m \in keys :
        /\ Done(m)
        /\ path[m] = "delete"
        /\ reterr[m] = Nil
        /\ requests[m] # <<>>
        /\ ~HookPresent(machines[m].annotations)
        /\ OtherHookAnnotation \in DOMAIN machines[m].annotations
        /\ PreTerminateDeleteHookAnnotationPrefix
              \in DOMAIN machines[m].annotations

----------------------------------------------------------------------------
(* C18, as claimed: for a Machine without the cluster name label Reconcile *)
(* returns no error, asks for no Cluster, does not change obj and sends no *)
(* update, whatever hook the Machine has.                                  *)

NoOwnerReference(m) ==
    /\ Returned(m)
    /\ obj[m].exists
    /\ ClusterLabelName \notin DOMAIN obj[m].labels

C18_AsClaimed ==
    \A m \in keys :
        NoOwnerReference(m) =>
            /\ reterr[m] = Nil
            /\ gets[m] = <<"Machine">>
            /\ ~Mutated(m)

(* C18, amended: for a Machine without the cluster name label Reconcile    *)
(* asks for no Cluster, does not change obj and sends no update, whatever  *)
(* hook the Machine has; its return statement returns no error, and        *)
(* Reconcile returns no error unless the deferred patch itself fails.      *)

C18_NoOwnerReferenceSkipped ==
    \A m \in keys :
        NoOwnerReference(m) =>
            /\ NilUnlessCommitFailed(m)
            /\ gets[m] = <<"Machine">>
            /\ ~Mutated(m)

C18_Witness ==
    \E m \in keys :
        /\ Done(m)
        /\ NoOwnerReference(m)
        /\ path[m] = "noLabel"
        /\ reterr[m] = Nil
        /\ HookPresent(machines[m].annotations)

----------------------------------------------------------------------------
(* C19: an invocation that has taken its snapshot runs the deferred patch  *)
(* exactly once, after the body has returned, whichever return statement   *)
(* the body took; an invocation that returned before the snapshot (Machine *)
(* not found, Get failed, helper failed) runs none.                        *)

BeforeSnapshot == {"notFound", "getError", "helperError"}

AfterSnapshot ==
    {"noLabel", "ownerError", "ownerNotFound", "outOfScope", "wait",
     "normal", "delete"}

C19_CommitOnEveryExit ==
    \A m \in keys :
        /\ pc[m] \in {"body", "deferred"} => commits[m] = <<>>
        /\ pc[m] = "deferred" => path[m] \in AfterSnapshot
        /\ Done(m) =>
              /\ path[m] \in BeforeSnapshot \cup AfterSnapshot
              /\ path[m] \in BeforeSnapshot => commits[m] = <<>>
              /\ path[m] \in AfterSnapshot => Len(commits[m]) = 1

C19_Witness ==
    \E m \in keys :
        /\ Done(m)
        /\ path[m] = "noLabel"
        /\ Len(commits[m]) = 1

----------------------------------------------------------------------------
(* C20: convergence.  The manager of SetupWithManager queues a Machine     *)
(* again after every change of its Cluster and after every error that      *)
(* Reconcile returned; a Get or a patch that is tried again and again      *)
(* succeeds in the end.  The Cluster is in scope; once it is deleting and  *)
(* its finalizer is gone it stays so.                                      *)

InitLive ==
    /\ keys = {"m1"}
    /\ \E a \in InitAnnotations :
          machines =
              [k \in Machines |->
                  IF k \in keys
                  THEN [exists |-> TRUE,
                        labels |-> [l \in {ClusterLabelName} |-> "c1"],
                        annotations |-> a]
                  ELSE NoMachine]
    /\ \E d \in BOOLEAN, f \in SUBSET {ClusterFinalizer} :
          clusters =
              [c \in ClusterNames |->
                  [exists |-> TRUE, labels |-> {AviClusterLabel},
                   deletionTimestamp |-> d, finalizers |-> f]]
    /\ pc = [k \in Machines |-> "idle"]
    /\ obj = [k \in Machines |-> NoMachine]
    /\ patchHelper = [k \in Machines |-> EmptyMap]
    /\ cluster = [k \in Machines |-> NoCluster]
    /\ reterr = [k \in Machines |-> Nil]
    /\ res = [k \in Machines |-> EmptyResult]
    /\ path = [k \in Machines |-> "none"]
    /\ gets = [k \in Machines |-> <<>>]
    /\ requests = [k \in Machines |-> <<>>]
    /\ commits = [k \in Machines |-> <<>>]
    /\ prev = [k \in Machines |-> NoPrev]
    /\ extChange = [k \in Machines |-> FALSE]
    /\ render = NoRender

NextLive ==
    \/ \E m \in Machines : ReconcileGet(m)
    \/ \E m \in Machines : ReconcileBody(m)
    \/ \E m \in Machines : ReconcileDeferredPatch(m)
    \/ \E c \in ClusterNames : ClusterDelete(c)
    \/ \E c \in ClusterNames : ClusterRemoveFinalizer(c)

\* SetupWithManager without the watch of the Clusters
Queued_NoClusterWatch(m) ==
    \/ pc[m] = "idle"
    \/ pc[m] = "done" /\ reterr[m] # Nil

\* lines 29-40: the Machine is in the queue: it was never reconciled, or
\* its Cluster changed since its last invocation began (the watch of lines
\* 33-38), or that invocation returned an error.
Queued(m) ==
    \/ pc[m] = "idle"
    \/ pc[m] = "done" /\ (extChange[m] \/ reterr[m] # Nil)

\* The queued Machine is read and its helper made.
GetSucceeds(m) ==
    /\ m \in keys
    /\ Queued(m)
    /\ ReconcileGet(m)
    /\ pc'[m] = "body"

\* The Cluster is read.
BodySucceeds(m) ==
    /\ ReconcileBody(m)
    /\ path'[m] # "ownerError"

\* The patch of a changed obj reaches the API server.
WriteSucceeds(m) ==
    /\ ReconcileDeferredPatch(m)
    /\ machines' # machines

Fairness ==
    \A m \in Machines :
        /\ WF_vars(GetSucceeds(m))
        /\ WF_vars(ReconcileBody(m))
        /\ WF_vars(ReconcileDeferredPatch(m))
        /\ SF_vars(BodySucceeds(m))
        /\ SF_vars(WriteSucceeds(m))

SpecLive == InitLive /\ [][NextLive]_vars /\ Fairness

\* In the API server the Cluster of m is in scope, deleting, and its
\* finalizer is gone.
CleanedUp(m) ==
    /\ machines[m].exists
    /\ HasClusterName(machines[m].labels)
    /\ LET c == GetCluster(ClusterNameOf(machines[m].labels)) IN
          /\ c.exists
          /\ InScope(c)
          /\ Deleting(c)
          /\ ~FinalizerPresent(c)

(* C20: once the Cluster of a Machine is in scope, deleting and without    *)
(* its finalizer, the hook is eventually off the Machine in the API server *)
(* and stays off, also when an invocation that read the Cluster before     *)
(* that patches the hook onto the Machine afterwards.                      *)
C20_Convergence ==
    \A m \in {"m1"} :
        CleanedUp(m) ~> [](~HookPresent(machines[m].annotations))

\* An invocation that read the live Cluster has patched the hook onto the
\* Machine after the Cluster was cleaned up.
C20_Witness ==
    \E m \in keys :
        /\ Done(m)
        /\ CleanedUp(m)
        /\ path[m] = "normal"
        /\ reterr[m] = Nil
        /\ requests[m] # <<>>
        /\ ~HookPresent(patchHelper[m])
        /\ HookPresent(machines[m].annotations)

====
